---- MODULE Spec2Model ----
(***************************************************************************)
(* Model of the birthday notification backend:                             *)
(*   - UsersService.findUsersWithBirthdayToday (candidate window, match)   *)
(*   - BirthdayWorkerService.checkBirthdays / processBirthdayMessage /     *)
(*     sendBirthdayMessageWithRetry / sendBirthdayMessage                  *)
(*   - UsersService.create / findOne / update / remove / validateTimezone  *)
(*                                                                         *)
(* Time is counted in whole hours; instant 0 is 2023-01-01T00:00Z.  The    *)
(* calendar is the 365-day calendar of 2022/2023.  A timezone is an IANA   *)
(* name; the runtime's timezone database gives its UTC offset at an        *)
(* instant (whole hours; America/New_York with its 2023 DST rules).        *)
(***************************************************************************)
EXTENDS Integers, Sequences, FiniteSets, TLC

VARIABLES
    now,          \* the wall clock: the instant `new Date()` returns
    serverTz,     \* the timezone of the server process (TZ)
    users,        \* the stored user documents, in collection order
    findCall,     \* a direct call of findUsersWithBirthdayToday and its outcome
    inv,          \* the invocations of checkBirthdays (one frame per slot)
    log,          \* the cycle-level output of the Logger, oldest first
    firings,      \* number of cron firings so far
    deliveries,   \* history: <<user id, cycle instant>> of every delivered message
    api           \* the last call of create/findOne/update/remove and its outcome

vars == <<now, serverTz, users, findCall, inv, log, firings, deliveries, api>>

(***************************************************************************)
(* Bounds of the model                                                     *)
(***************************************************************************)
ProbeSpan == 24        \* hours explored from each probe instant
AnnivSpread == 2       \* anniversaries lie within this many days of the UTC date
MaxUsers == 2          \* stored users
MaxFirings == 2        \* cron firings explored after the initial instant
MaxRetriesArg == 3     \* largest maxRetries argument of a direct sender call
JitterSteps == 2       \* Math.random() is one of 0/J, 1/J, ..., (J-1)/J

(***************************************************************************)
(* Calendar                                                                *)
(***************************************************************************)
DaysInMonth == <<31, 28, 31, 30, 31, 30, 31, 31, 30, 31, 30, 31>>

RECURSIVE SumDays(_)
SumDays(m) == IF m = 1 THEN 0 ELSE SumDays(m - 1) + DaysInMonth[m - 1]

\* days of the year before the first of month m
DaysBeforeTable == [m \in 1..12 |-> SumDays(m)]

DaysBefore(m) == DaysBeforeTable[m]

\* the instant (hours) of month/day hh:00 UTC in 2023
HourOf(m, d, hh) == (DaysBefore(m) + (d - 1)) * 24 + hh

\* calendar fields of a count of hours since 2023-01-01T00:00 on some clock
Fields(h) ==
    LET dayIndex == h \div 24
        doy      == dayIndex % 365
        m        == CHOOSE k \in 1..12 :
                        DaysBefore(k) <= doy /\ doy < DaysBefore(k) + DaysInMonth[k]
    IN  [year  |-> 2023 + (dayIndex \div 365),
         month |-> m,
         day   |-> doy - DaysBefore(m) + 1,
         hour  |-> h % 24]

\* inverse of Fields
HoursOfFields(f) ==
    ((f.year - 2023) * 365 + DaysBefore(f.month) + (f.day - 1)) * 24 + f.hour

(***************************************************************************)
(* The runtime's timezone database (Intl)                                  *)
(***************************************************************************)
DstStart == HourOf(3, 12, 7)     \* 2023-03-12T07:00Z: New York goes to UTC-4
DstEnd   == HourOf(11, 5, 6)     \* 2023-11-05T06:00Z: New York back to UTC-5

FixedZones ==
    [z \in {"Etc/GMT+12", "Etc/GMT+11", "Etc/GMT+10", "Etc/GMT+9", "Etc/GMT+8",
            "Etc/GMT+7", "Etc/GMT+6", "Etc/GMT+5", "Etc/GMT+4", "Etc/GMT+3",
            "Etc/GMT+2", "Etc/GMT+1", "UTC", "Etc/GMT-1", "Etc/GMT-2",
            "Etc/GMT-3", "Etc/GMT-4", "Etc/GMT-5", "Etc/GMT-6", "Etc/GMT-7",
            "Etc/GMT-8", "Etc/GMT-9", "Etc/GMT-10", "Etc/GMT-11", "Etc/GMT-12",
            "Etc/GMT-13", "Etc/GMT-14", "Pacific/Kiritimati"} |->
        CASE z = "Etc/GMT+12" -> -12 [] z = "Etc/GMT+11" -> -11
          [] z = "Etc/GMT+10" -> -10 [] z = "Etc/GMT+9"  -> -9
          [] z = "Etc/GMT+8"  -> -8  [] z = "Etc/GMT+7"  -> -7
          [] z = "Etc/GMT+6"  -> -6  [] z = "Etc/GMT+5"  -> -5
          [] z = "Etc/GMT+4"  -> -4  [] z = "Etc/GMT+3"  -> -3
          [] z = "Etc/GMT+2"  -> -2  [] z = "Etc/GMT+1"  -> -1
          [] z = "UTC"        -> 0   [] z = "Etc/GMT-1"  -> 1
          [] z = "Etc/GMT-2"  -> 2   [] z = "Etc/GMT-3"  -> 3
          [] z = "Etc/GMT-4"  -> 4   [] z = "Etc/GMT-5"  -> 5
          [] z = "Etc/GMT-6"  -> 6   [] z = "Etc/GMT-7"  -> 7
          [] z = "Etc/GMT-8"  -> 8   [] z = "Etc/GMT-9"  -> 9
          [] z = "Etc/GMT-10" -> 10  [] z = "Etc/GMT-11" -> 11
          [] z = "Etc/GMT-12" -> 12  [] z = "Etc/GMT-13" -> 13
          [] z = "Etc/GMT-14" -> 14  [] z = "Pacific/Kiritimati" -> 14]

KnownZones == DOMAIN FixedZones \cup {"America/New_York"}

\* UTC offset (hours) of a known zone at instant t
OffsetAt(tz, t) ==
    IF tz = "America/New_York"
    THEN IF DstStart <= t /\ t < DstEnd THEN -4 ELSE -5
    ELSE FixedZones[tz]

Min(S) == CHOOSE x \in S : \A y \in S : x <= y

(***************************************************************************)
(* The JavaScript Date operations the lookup uses                          *)
(***************************************************************************)
\* Date.prototype.getMonth(): 0-based month of t on the server's local clock
GetMonth(t, tz) == Fields(t + OffsetAt(tz, t)).month - 1

\* Date.prototype.getDate(): day of month of t on the server's local clock
GetDate(t, tz) == Fields(t + OffsetAt(tz, t)).day

\* now.toLocaleString('en-US', { timeZone }): "M/D/YYYY, h:00:00 AM|PM", or a
\* RangeError when the runtime cannot resolve the zone
ToLocaleString(t, tz) ==
    IF tz \notin KnownZones
    THEN [ok |-> FALSE]
    ELSE LET f == Fields(t + OffsetAt(tz, t))
         IN  [ok     |-> TRUE,
              month  |-> f.month,
              day    |-> f.day,
              year   |-> f.year,
              hour12 |-> IF f.hour % 12 = 0 THEN 12 ELSE f.hour % 12,
              pm     |-> f.hour >= 12]

\* new Date("M/D/YYYY, h:00:00 AM|PM"): the string is read as a time on the
\* server's local clock.  A local time that occurs twice is the earlier
\* instant; a local time skipped by a transition is read with the offset in
\* force before the transition.
DateParse(s, tz) ==
    LET hour24 == (s.hour12 % 12) + (IF s.pm THEN 12 ELSE 0)
        wall   == HoursOfFields([year |-> s.year, month |-> s.month,
                                 day |-> s.day, hour |-> hour24])
        cands  == {t \in (wall - 14)..(wall + 12) : t + OffsetAt(tz, t) = wall}
    IN  IF cands # {} THEN Min(cands) ELSE wall - OffsetAt(tz, wall - 24)

(***************************************************************************)
(* UsersService.findUsersWithBirthdayToday                                 *)
(***************************************************************************)
DayMs == 24     \* 86400000 ms, in hours

\* the three (birthdayMonth, birthdayDay) alternatives of the $match stage,
\* in the order of the $or: today, yesterday, tomorrow
MatchWindow(t, tz) ==
    << [birthdayMonth |-> GetMonth(t, tz) + 1,
        birthdayDay   |-> GetDate(t, tz)],
       [birthdayMonth |-> GetMonth(t - DayMs, tz) + 1,
        birthdayDay   |-> GetDate(t - DayMs, tz)],
       [birthdayMonth |-> GetMonth(t + DayMs, tz) + 1,
        birthdayDay   |-> GetDate(t + DayMs, tz)] >>

InWindow(u, w) ==
    \E i \in 1..Len(w) : /\ u.birthdayMonth = w[i].birthdayMonth
                         /\ u.birthdayDay = w[i].birthdayDay

\* a lookup that runs one query per alternative and concatenates the answers
AggregatePerAlternative(coll, w) ==
    LET Hit(i) == LET Test(u) == /\ u.birthdayMonth = w[i].birthdayMonth
                                 /\ u.birthdayDay = w[i].birthdayDay
                  IN  SelectSeq(coll, Test)
    IN  Hit(1) \o Hit(2) \o Hit(3)

\* the aggregation: every stored document that satisfies the $or, once, in
\* collection order
Aggregate(coll, w) ==
    LET Test(u) == InWindow(u, w) IN SelectSeq(coll, Test)

\* a localization that reads the UTC date for every user
UserMonthDayUtc(t, timezone, tz) ==
    IF ~ToLocaleString(t, timezone).ok
    THEN [ok |-> FALSE]
    ELSE [ok |-> TRUE, month |-> GetMonth(t, "UTC") + 1, day |-> GetDate(t, "UTC")]

\* lines 237-245: userDate = new Date(now.toLocaleString('en-US',
\* { timeZone })) and the pair (userDate.getMonth() + 1, userDate.getDate())
\* the filter compares, on a server whose zone is tz; not ok when
\* toLocaleString raised
UserMonthDay(t, timezone, tz) ==
    LET s == ToLocaleString(t, timezone)
    IN  IF ~s.ok
        THEN [ok |-> FALSE]
        ELSE LET userDate == DateParse(s, tz)
             IN  [ok    |-> TRUE,
                  month |-> GetMonth(userDate, tz) + 1,
                  day   |-> GetDate(userDate, tz)]

\* a filter callback that compares the server's own date, not the user's
FilterUserServerDate(u, t, tz) ==
    LET s == ToLocaleString(t, u.timezone)
    IN  IF ~s.ok
        THEN [threw |-> TRUE, caught |-> TRUE, keep |-> FALSE]
        ELSE [threw |-> FALSE, caught |-> FALSE,
              keep  |-> /\ GetMonth(t, tz) + 1 = u.birthdayMonth
                        /\ GetDate(t, tz) = u.birthdayDay]

\* a filter callback without the try/catch
FilterUserNoCatch(u, t, tz) ==
    LET s == ToLocaleString(t, u.timezone)
    IN  IF ~s.ok
        THEN [threw |-> TRUE, caught |-> FALSE, keep |-> FALSE]
        ELSE LET userDate == DateParse(s, tz)
             IN  [threw |-> FALSE, caught |-> FALSE,
                  keep  |-> /\ GetMonth(userDate, tz) + 1 = u.birthdayMonth
                            /\ GetDate(userDate, tz) = u.birthdayDay]

\* a filter callback that trusts the aggregation and keeps every candidate
FilterUserTrusting(u, t, tz) ==
    [threw |-> FALSE, caught |-> FALSE, keep |-> TRUE]

\* the callback of users.filter: "threw" when toLocaleString raised (the
\* catch clause then logs and answers false), else whether today, on the
\* user's clock, is the user's birthday
FilterUser(u, t, tz) ==
    IF UserMonthDay(t, u.timezone, tz) = [ok |-> FALSE]
    THEN [threw |-> TRUE, caught |-> TRUE, keep |-> FALSE]
    ELSE [threw |-> FALSE, caught |-> FALSE,
          keep  |-> UserMonthDay(t, u.timezone, tz) =
                       [ok |-> TRUE, month |-> u.birthdayMonth,
                        day |-> u.birthdayDay]]

\* the whole method for instant t, server zone tz and collection coll:
\* the window, the candidates, whether an exception leaves the filter, the
\* returned list and the ids console.error was called for
FindUsersWithBirthdayToday(t, tz, coll) ==
    LET w      == MatchWindow(t, tz)
        cand   == Aggregate(coll, w)
        Keep(u)  == FilterUser(u, t, tz).keep
        Threw(u) == FilterUser(u, t, tz).threw
        bad    == SelectSeq(cand, Threw)
        Escapes(u) == FilterUser(u, t, tz).threw /\ ~FilterUser(u, t, tz).caught
    IN  [window     |-> w,
         candidates |-> cand,
         rejected   |-> SelectSeq(cand, Escapes) # <<>>,
         result     |-> SelectSeq(cand, Keep),
         errors     |-> [i \in 1..Len(bad) |-> bad[i].id]]

(***************************************************************************)
(* Inputs                                                                  *)
(***************************************************************************)
\* probe instants: the 2022/2023 year boundary and the two 2023 DST
\* transitions of New York
ProbeStarts == {HourOf(1, 1, 0) - 12, HourOf(3, 12, 12), HourOf(11, 5, 12)}

Instants == UNION {s..(s + ProbeSpan - 1) : s \in ProbeStarts}

ServerZones == {"UTC", "Etc/GMT+12", "Etc/GMT-14", "America/New_York"}

\* the (month, day) of the UTC date k days from instant t
Anniversary(t, k) ==
    LET f == Fields(t + 24 * k) IN <<f.month, f.day>>

MkUser(id, tz, md) ==
    [id |-> id, timezone |-> tz, birthdayMonth |-> md[1], birthdayDay |-> md[2]]

NoFindCall == [state |-> "none", error |-> "none", window |-> <<>>,
               candidates |-> <<>>, result |-> <<>>, errors |-> <<>>]

(***************************************************************************)
(* UsersService: create, findOne, update, remove                           *)
(***************************************************************************)
\* no call yet; nextId is the id the store gives the next saved document
NoApiCall == [op |-> "none", id |-> 0, timezone |-> "", outcome |-> "none",
              nextId |-> 1]

\* a stored document, as create saves it
MkDoc(id, dto) ==
    [id |-> id, timezone |-> dto.timezone, email |-> dto.email,
     birthdayMonth |-> dto.birthday[1], birthdayDay |-> dto.birthday[2]]

\* a validateTimezone that accepts every name
ValidateTimezoneLax(timezone) == "ok"

\* lines 165-173: Intl.DateTimeFormat throws for a name the runtime cannot
\* resolve, and the catch turns that into a BadRequestException
ValidateTimezone(timezone) ==
    IF timezone \in KnownZones THEN "ok" ELSE "BadRequestException"

\* the positions of the documents whose _id is id
FindById(coll, id) == {i \in 1..Len(coll) : coll[i].id = id}

\* the store rejects a write that would give two documents the same email
\* (error code 11000, lines 54-62 and 144-152)
DuplicateKey(coll, id, email) ==
    \E i \in 1..Len(coll) : coll[i].id # id /\ coll[i].email = email

\* lines 41-65
CreateResult(coll, dto, id) ==
    IF ValidateTimezone(dto.timezone) # "ok"
    THEN [outcome |-> ValidateTimezone(dto.timezone), coll |-> coll]
    ELSE IF DuplicateKey(coll, id, dto.email)
    THEN [outcome |-> "BadRequestException", coll |-> coll]
    ELSE [outcome |-> "ok", coll |-> Append(coll, MkDoc(id, dto))]

\* lines 106-112
FindOneResult(coll, id) ==
    IF FindById(coll, id) = {}
    THEN [outcome |-> "NotFoundException", coll |-> coll]
    ELSE [outcome |-> "ok", coll |-> coll]

\* lines 122-132: a field of the DTO is copied when it is truthy ("" and
\* <<>> stand for a field that is absent or empty)
UpdateData(doc, dto) ==
    [doc EXCEPT !.email         = IF dto.email # "" THEN dto.email ELSE @,
                !.timezone      = IF dto.timezone # "" THEN dto.timezone ELSE @,
                !.birthdayMonth = IF dto.birthday # <<>> THEN dto.birthday[1] ELSE @,
                !.birthdayDay   = IF dto.birthday # <<>> THEN dto.birthday[2] ELSE @]

\* lines 114-155: the timezone is validated before the document is looked up
UpdateResult(coll, id, dto) ==
    IF dto.timezone # "" /\ ValidateTimezone(dto.timezone) # "ok"
    THEN [outcome |-> ValidateTimezone(dto.timezone), coll |-> coll]
    ELSE IF FindById(coll, id) = {}
    THEN [outcome |-> "NotFoundException", coll |-> coll]
    ELSE IF dto.email # "" /\ DuplicateKey(coll, id, dto.email)
    THEN [outcome |-> "BadRequestException", coll |-> coll]
    ELSE [outcome |-> "ok",
          coll    |-> [i \in 1..Len(coll) |->
                         IF coll[i].id = id THEN UpdateData(coll[i], dto)
                         ELSE coll[i]]]

\* a remove that does not look at deletedCount
RemoveResultSilent(coll, id) ==
    [outcome |-> "ok", coll |-> SelectSeq(coll, LAMBDA u : u.id # id)]

\* lines 157-162
RemoveResult(coll, id) ==
    IF FindById(coll, id) = {}
    THEN [outcome |-> "NotFoundException", coll |-> coll]
    ELSE [outcome |-> "ok", coll |-> SelectSeq(coll, LAMBDA u : u.id # id)]

\* the requests the model sends
DtoZones == {"America/New_York", "UTC", "Not/AZone"}
DtoEmails == {"a@example.com", "b@example.com"}
DtoBirthdays == {<<1, 15>>, <<3, 12>>}
CallIds == 1..(MaxUsers + 1)

(***************************************************************************)
(* BirthdayWorkerService: data                                             *)
(***************************************************************************)
DefaultMaxRetries == 5
DefaultBaseDelay == 1000

\* one frame per invocation of checkBirthdays that can be in flight
Slots == DOMAIN inv

\* a frame of checkBirthdays that is not running; elapsed is the time a
\* direct caller of sendBirthdayMessageWithRetry has spent in the timers of
\* line 112
IdleInv == [pc |-> "idle", now |-> 0, lookup |-> "none", seqs |-> <<>>,
            successful |-> 0, failed |-> 0, threw |-> FALSE, elapsed |-> 0]

\* a line of Logger output written by the invocation that started at instant t
LogLine(level, msg, t, n) == [level |-> level, msg |-> msg, at |-> t, count |-> n]

\* an invocation that keeps what the finished frame left behind
NewInvocationCarry(prev, t) ==
    [prev EXCEPT !.pc = "lookup", !.now = t, !.lookup = "pending"]

\* the frame checkBirthdays starts with at instant t, in the place of the
\* finished frame prev: the lookup has captured `new Date()` and is awaiting
\* the aggregation; every local is new
NewInvocation(prev, t) ==
    [pc |-> "lookup", now |-> t, lookup |-> "pending", seqs |-> <<>>,
     successful |-> 0, failed |-> 0, threw |-> FALSE, elapsed |-> 0]

\* sendBirthdayMessageWithRetry(user, maxRetries, baseDelay) at its first
\* `await this.sendBirthdayMessage(user)`: retries = 0 and one call in flight.
\* An Error object is named by the number of the call that raised it (0: no
\* error): caught is the binding of the catch clause of line 91, thrown the
\* error that left the sender, rethrown the one processBirthdayMessage
\* rejected with; waits counts the timers of line 112 that were started
NewSeq(u, maxRetries, baseDelay) ==
    [user |-> u.id, pc |-> "send", retries |-> 0, maxRetries |-> maxRetries,
     baseDelay |-> baseDelay, delay |-> 0, attempts |-> 1, delivered |-> FALSE,
     caught |-> 0, thrown |-> 0, rethrown |-> 0, waits |-> 0]

\* a loop that awaits each member's promise before it starts the next: only
\* the first call has been made when the loop first yields
DispatchInTurn(birthdayUsers) ==
    [i \in 1..Len(birthdayUsers) |->
        IF i = 1
        THEN NewSeq(birthdayUsers[i], DefaultMaxRetries, DefaultBaseDelay)
        ELSE [NewSeq(birthdayUsers[i], DefaultMaxRetries, DefaultBaseDelay)
                EXCEPT !.pc = "pending", !.attempts = 0]]

\* a map that leaves out the last user it was given
DispatchButLast(birthdayUsers) ==
    [i \in 1..(Len(birthdayUsers) - 1) |->
        NewSeq(birthdayUsers[i], DefaultMaxRetries, DefaultBaseDelay)]

\* lines 32-34: birthdayUsers.map(user => this.processBirthdayMessage(user))
\* calls processBirthdayMessage once for each element, in order, before the
\* method yields; each call runs to its first await with the default
\* maxRetries and baseDelay
Dispatch(birthdayUsers) ==
    [i \in 1..Len(birthdayUsers) |->
        NewSeq(birthdayUsers[i], DefaultMaxRetries, DefaultBaseDelay)]

Terminal(s) == s.pc \in {"fulfilled", "rejected"}

RECURSIVE Pow2(_)
Pow2(k) == IF k = 0 THEN 1 ELSE 2 * Pow2(k - 1)

\* a budget test that allows one attempt more
ExhaustedLate(retries, maxRetries) == retries > maxRetries + 1

\* a budget test that gives up one attempt early
ExhaustedEarly(retries, maxRetries) == retries >= maxRetries

\* line 95: the retry budget is used up
Exhausted(retries, maxRetries) == retries > maxRetries

\* a backoff whose exponent is the number of failures, not one less
BackoffDelayDouble(baseDelay, retries, j) ==
    (baseDelay * Pow2(retries) * (JitterSteps + j)) \div (2 * JitterSteps)

\* a backoff that grows by baseDelay per failure instead of doubling
BackoffDelayLinear(baseDelay, retries, j) ==
    (baseDelay * retries * (JitterSteps + j)) \div (2 * JitterSteps)

\* lines 103-105 with Math.random() = j / JitterSteps:
\* floor(baseDelay * 2^(retries-1) * (0.5 + random * 0.5))
BackoffDelay(baseDelay, retries, j) ==
    (baseDelay * Pow2(retries - 1) * (JitterSteps + j)) \div (2 * JitterSteps)

\* a sender that remembers the first error it caught and throws that one
ThrownErrorFirst(error) == 1

\* line 99: `throw error` throws the error bound by the catch clause of the
\* iteration that used up the budget
ThrownError(error) == error

\* a processBirthdayMessage whose catch does not rethrow
ProcessOutcomeSwallow(senderThrew) == "fulfilled"

\* processBirthdayMessage: the status of its promise, given whether
\* sendBirthdayMessageWithRetry threw (the catch logs and rethrows)
ProcessOutcome(senderThrew) == IF senderThrew THEN "rejected" ELSE "fulfilled"

\* a checkBirthdays without the catch clause
CatchCycleErrorMissing(f) ==
    [frame |-> [f EXCEPT !.pc = "done"], lines |-> <<>>]

\* the catch clause of checkBirthdays: the error is logged at error level
\* and does not leave the method
CatchCycleError(f) ==
    [frame |-> [f EXCEPT !.pc = "done", !.threw = FALSE],
     lines |-> << LogLine("error", "error checking birthdays", f.now, 0) >>]

\* a checkBirthdays without the early return of lines 22-25
NoBirthdaysUnchecked(birthdayUsers) == FALSE

\* line 22: the lookup returned no user
NoBirthdays(birthdayUsers) == Len(birthdayUsers) = 0

\* a combinator that resolves with the first promise that settles
AnySettled(seqs) == \E i \in 1..Len(seqs) : Terminal(seqs[i])

\* a combinator that waits until every promise has been fulfilled
AllFulfilled(seqs) == \A i \in 1..Len(seqs) : seqs[i].pc = "fulfilled"

\* lines 32-34: Promise.allSettled resolves once every promise it was given
\* has been fulfilled or rejected
AllSettled(seqs) == \A i \in 1..Len(seqs) : Terminal(seqs[i])

\* a sender without the `return` of line 90: after a call that resolved the
\* loop calls sendBirthdayMessage once more
OnSuccessNoReturn(s) ==
    IF s.delivered
    THEN [s EXCEPT !.pc = ProcessOutcome(FALSE)]
    ELSE [s EXCEPT !.delivered = TRUE, !.attempts = @ + 1]

\* lines 83-90, then line 63: the call resolved, the sender returns and
\* processBirthdayMessage is fulfilled
OnSuccess(s) == [s EXCEPT !.pc = ProcessOutcome(FALSE), !.delivered = TRUE]

\* a sender that sleeps before it tests the budget: the last failure is
\* followed by one more timer
OnFailureWaitThenThrow(s, j) ==
    LET retries == s.retries + 1
        error   == s.attempts
    IN  IF Exhausted(retries, s.maxRetries)
        THEN [s EXCEPT !.retries = retries, !.caught = error,
                       !.waits = @ + 1,
                       !.thrown = ThrownError(error),
                       !.rethrown = ThrownError(error),
                       !.pc = ProcessOutcome(TRUE)]
        ELSE [s EXCEPT !.retries = retries, !.caught = error,
                       !.pc = "wait", !.waits = @ + 1,
                       !.delay = BackoffDelay(s.baseDelay, retries, j)]

\* lines 91-112, then lines 64-70 when the budget is used up: the call
\* threw; with jitter j the sender either rethrows the error it has just
\* caught, which processBirthdayMessage logs and rethrows, or starts the
\* timer of line 112
OnFailure(s, j) ==
    LET retries == s.retries + 1
        error   == s.attempts
    IN  IF Exhausted(retries, s.maxRetries)
        THEN [s EXCEPT !.retries = retries, !.caught = error,
                       !.thrown = ThrownError(error),
                       !.rethrown = ThrownError(error),
                       !.pc = ProcessOutcome(TRUE)]
        ELSE [s EXCEPT !.retries = retries, !.caught = error,
                       !.pc = "wait", !.waits = @ + 1,
                       !.delay = BackoffDelay(s.baseDelay, retries, j)]

\* a tally that gives the whole batch the status of its first promise
CountAsFirst(seqs, status) ==
    IF seqs # <<>> /\ seqs[1].pc = status THEN Len(seqs) ELSE 0

\* lines 37-38: results.filter(r => r.status === status).length
Count(seqs, status) == Cardinality({i \in 1..Len(seqs) : seqs[i].pc = status})

(***************************************************************************)
(* BirthdayWorkerService: steps                                            *)
(***************************************************************************)
\* a job that skips a firing while an earlier invocation is running
FreeSlotsExclusive ==
    IF \E c \in Slots : inv[c].pc \in {"lookup", "settling"}
    THEN {}
    ELSE {c \in Slots : inv[c].pc \in {"idle", "done"}}

\* the frames a new invocation can use; @Cron calls checkBirthdays at every
\* firing, whatever the earlier invocations are doing
FreeSlots == {c \in Slots : inv[c].pc \in {"idle", "done"}}

\* the clock reaches the next full hour and @Cron(EVERY_HOUR) invokes
\* checkBirthdays
CronFire ==
    /\ firings < MaxFirings
    /\ FreeSlots # {}
    /\ LET c == Min(FreeSlots)
       IN  /\ now' = now + 1
           /\ firings' = firings + 1
           /\ inv' = [inv EXCEPT ![c] = NewInvocation(inv[c], now + 1)]
           /\ log' = Append(log, LogLine("log", "checking", now + 1, 0))
    /\ UNCHANGED <<serverTz, users, findCall, deliveries, api>>

\* the aggregation resolves: lines 22-34
LookupOk(c) ==
    /\ inv[c].pc = "lookup"
    /\ LET birthdayUsers == FindUsersWithBirthdayToday(inv[c].now, serverTz, users).result
       IN  IF NoBirthdays(birthdayUsers)
           THEN /\ inv' = [inv EXCEPT ![c] =
                             [@ EXCEPT !.pc = "done", !.lookup = "resolved"]]
                /\ log' = Append(log, LogLine("log", "none", inv[c].now, 0))
           ELSE /\ inv' = [inv EXCEPT ![c] =
                             [@ EXCEPT !.pc = "settling", !.lookup = "resolved",
                                       !.seqs = Dispatch(birthdayUsers)]]
                /\ log' = Append(log, LogLine("log", "found", inv[c].now,
                                              Len(birthdayUsers)))
    /\ UNCHANGED <<now, serverTz, users, findCall, firings, deliveries, api>>

\* the aggregation rejects (storage unavailable): lines 48-53
LookupFail(c) ==
    /\ inv[c].pc = "lookup"
    /\ LET caught == CatchCycleError([inv[c] EXCEPT !.lookup = "rejected", !.threw = TRUE])
       IN  /\ inv' = [inv EXCEPT ![c] = caught.frame]
           /\ log' = log \o caught.lines
    /\ UNCHANGED <<now, serverTz, users, findCall, firings, deliveries, api>>

\* sendBirthdayMessage resolves for sequence i of invocation c: lines 84-90,
\* then line 63
SendOk(c, i) ==
    /\ inv[c].pc \in {"settling", "direct"}
    /\ i \in 1..Len(inv[c].seqs)
    /\ inv[c].seqs[i].pc = "send"
    /\ inv' = [inv EXCEPT ![c].seqs[i] = OnSuccess(@)]
    /\ deliveries' = deliveries \cup {<<inv[c].seqs[i].user, inv[c].now>>}
    /\ UNCHANGED <<now, serverTz, users, findCall, log, firings, api>>

\* sendBirthdayMessage throws for sequence i of invocation c: lines 91-112,
\* then lines 64-70 when the budget is used up
SendFail(c, i) ==
    /\ inv[c].pc \in {"settling", "direct"}
    /\ i \in 1..Len(inv[c].seqs)
    /\ inv[c].seqs[i].pc = "send"
    /\ \E j \in 0..(JitterSteps - 1) :
         inv' = [inv EXCEPT ![c].seqs[i] = OnFailure(@, j)]
    /\ UNCHANGED <<now, serverTz, users, findCall, log, firings, deliveries, api>>

\* the backoff timer of line 112 expires; the loop calls sendBirthdayMessage
\* again
BackoffDone(c, i) ==
    /\ inv[c].pc \in {"settling", "direct"}
    /\ i \in 1..Len(inv[c].seqs)
    /\ inv[c].seqs[i].pc = "wait"
    /\ inv' = [inv EXCEPT ![c].seqs[i] =
                            [@ EXCEPT !.pc = "send", !.delay = 0, !.attempts = @ + 1],
                          ![c].elapsed =
                            IF inv[c].pc = "direct"
                            THEN @ + inv[c].seqs[i].delay ELSE @]
    /\ UNCHANGED <<now, serverTz, users, findCall, log, firings, deliveries, api>>

\* Promise.allSettled resolves: lines 36-47
Settle(c) ==
    /\ inv[c].pc = "settling"
    /\ AllSettled(inv[c].seqs)
    /\ LET successful == Count(inv[c].seqs, "fulfilled")
           failed     == Count(inv[c].seqs, "rejected")
           summary    == << LogLine("log", "complete successful", inv[c].now, successful),
                            LogLine("log", "complete failed", inv[c].now, failed) >>
           warning    == IF failed > 0
                         THEN << LogLine("warn", "failed to process", inv[c].now, failed) >>
                         ELSE <<>>
       IN  /\ inv' = [inv EXCEPT ![c] =
                        [@ EXCEPT !.pc = "done", !.successful = successful,
                                  !.failed = failed]]
           /\ log' = log \o summary \o warning
    /\ UNCHANGED <<now, serverTz, users, findCall, firings, deliveries, api>>

(***************************************************************************)
(* A direct call of findUsersWithBirthdayToday                             *)
(***************************************************************************)
FindReturns ==
    /\ findCall.state = "none"
    /\ LET r == FindUsersWithBirthdayToday(now, serverTz, users)
       IN  findCall' = [state  |-> IF r.rejected THEN "rejected" ELSE "returned",
                        error  |-> IF r.rejected THEN "RangeError" ELSE "none",
                        window |-> r.window, candidates |-> r.candidates,
                        result |-> IF r.rejected THEN <<>> ELSE r.result,
                        errors |-> r.errors]
    /\ UNCHANGED <<now, serverTz, users, inv, log, firings, deliveries, api>>

\* the aggregation rejects; the method has no catch around it
FindRejects ==
    /\ findCall.state = "none"
    /\ findCall' = [findCall EXCEPT !.state = "rejected", !.error = "storage"]
    /\ UNCHANGED <<now, serverTz, users, inv, log, firings, deliveries, api>>

(***************************************************************************)
(* Calls of the users API                                                  *)
(***************************************************************************)
Create ==
    /\ api.nextId <= MaxUsers
    /\ \E tz \in DtoZones, e \in DtoEmails, b \in DtoBirthdays :
         LET r == CreateResult(users, [timezone |-> tz, email |-> e, birthday |-> b],
                               api.nextId)
         IN  /\ users' = r.coll
             /\ api' = [op |-> "create", id |-> api.nextId, timezone |-> tz,
                        outcome |-> r.outcome,
                        nextId |-> IF r.outcome = "ok" THEN api.nextId + 1
                                   ELSE api.nextId]
    /\ UNCHANGED <<now, serverTz, findCall, inv, log, firings, deliveries>>

FindOne ==
    /\ \E id \in CallIds :
         LET r == FindOneResult(users, id)
         IN  /\ users' = r.coll
             /\ api' = [api EXCEPT !.op = "findOne", !.id = id, !.timezone = "",
                                   !.outcome = r.outcome]
    /\ UNCHANGED <<now, serverTz, findCall, inv, log, firings, deliveries>>

Update ==
    /\ \E id \in CallIds, tz \in DtoZones \cup {""}, e \in DtoEmails \cup {""},
          b \in DtoBirthdays \cup {<<>>} :
         LET r == UpdateResult(users, id, [timezone |-> tz, email |-> e, birthday |-> b])
         IN  /\ users' = r.coll
             /\ api' = [api EXCEPT !.op = "update", !.id = id, !.timezone = tz,
                                   !.outcome = r.outcome]
    /\ UNCHANGED <<now, serverTz, findCall, inv, log, firings, deliveries>>

Remove ==
    /\ \E id \in CallIds :
         LET r == RemoveResult(users, id)
         IN  /\ users' = r.coll
             /\ api' = [api EXCEPT !.op = "remove", !.id = id, !.timezone = "",
                                   !.outcome = r.outcome]
    /\ UNCHANGED <<now, serverTz, findCall, inv, log, firings, deliveries>>

(***************************************************************************)
(* Specifications                                                          *)
(***************************************************************************)
TypeOK ==
    /\ now \in Int
    /\ serverTz \in KnownZones
    /\ firings \in 0..MaxFirings
    /\ \A c \in Slots : inv[c].pc \in {"idle", "lookup", "settling", "done", "direct"}
    /\ api.op \in {"none", "create", "findOne", "update", "remove"}
    /\ api.outcome \in {"none", "ok", "BadRequestException", "NotFoundException"}

\* findUsersWithBirthdayToday called once, on any store, at any probe instant
MatchStores ==
    LET single == {<<MkUser(1, tz, <<0, k>>)>> :
                     tz \in KnownZones \cup {"Not/AZone"},
                     k \in (-AnnivSpread)..AnnivSpread}
        mixed  == {MkUser(0, "America/New_York", <<0, 0>>),
                   MkUser(0, "Not/AZone", <<0, 0>>),
                   MkUser(0, "Pacific/Kiritimati", <<0, 1>>)}
        Ext(S) == {st \o <<[m EXCEPT !.id = Len(st) + 1]>> : st \in S, m \in mixed}
        RECURSIVE Longer(_, _)
        Longer(S, n) == IF n = 0 THEN {} ELSE Ext(S) \cup Longer(Ext(S), n - 1)
    IN  single \cup Longer(Ext({<<>>}), MaxUsers - 1)

\* the anniversaries of a store are given in days from the UTC date of t
Dated(st, t) ==
    [i \in 1..Len(st) |->
        MkUser(st[i].id, st[i].timezone, Anniversary(t, st[i].birthdayDay))]

InitMatch ==
    /\ now \in Instants
    /\ serverTz \in ServerZones
    /\ \E st \in MatchStores : users = Dated(st, now)
    /\ findCall = NoFindCall
    /\ inv = << IdleInv >>
    /\ log = <<>>
    /\ firings = 0
    /\ deliveries = {}
    /\ api = NoApiCall

NextMatch == FindReturns \/ FindRejects

SpecMatch == InitMatch /\ [][NextMatch]_vars

\* sendBirthdayMessageWithRetry called directly with maxRetries = n
InitSend ==
    /\ now \in {HourOf(1, 15, 14)}
    /\ serverTz = "UTC"
    /\ users = << MkUser(1, "America/New_York", <<1, 15>>) >>
    /\ findCall = NoFindCall
    /\ \E n \in 0..MaxRetriesArg, b \in {1, 3, DefaultBaseDelay} :
         inv = << [IdleInv EXCEPT !.pc = "direct", !.now = now,
                                  !.seqs = << NewSeq(users[1], n, b) >>] >>
    /\ log = <<>>
    /\ firings = 0
    /\ deliveries = {}
    /\ api = NoApiCall

NextSend ==
    \E c \in Slots : \E i \in 1..MaxUsers :
        SendOk(c, i) \/ SendFail(c, i) \/ BackoffDone(c, i)

SpecSend == InitSend /\ [][NextSend]_vars

\* the service running under the hourly cron job; a firing finds the
\* previous invocation finished (one frame)
CycleStarts == {HourOf(1, 15, 12), HourOf(1, 1, 3)}

\* the stored users are the first n of: one in New York whose anniversary is
\* the UTC date of the start, one on Kiritimati whose anniversary is the day
\* after, one in UTC whose anniversary is two days after (nobody's date
\* during the hours explored), ...
CycleKinds == << MkUser(0, "America/New_York", <<0, 0>>),
                 MkUser(0, "Pacific/Kiritimati", <<0, 1>>),
                 MkUser(0, "UTC", <<0, 2>>) >>

CycleStores ==
    {[i \in 1..n |-> [CycleKinds[((i - 1) % 3) + 1] EXCEPT !.id = i]] : n \in 0..MaxUsers}

Init ==
    /\ now \in CycleStarts
    /\ serverTz = "UTC"
    /\ \E st \in CycleStores : users = Dated(st, now)
    /\ findCall = NoFindCall
    /\ inv = << IdleInv >>
    /\ log = <<>>
    /\ firings = 0
    /\ deliveries = {}
    /\ api = NoApiCall

Next ==
    \/ CronFire
    \/ \E c \in Slots : LookupOk(c) \/ LookupFail(c) \/ Settle(c)
    \/ \E c \in Slots : \E i \in 1..MaxUsers :
          SendOk(c, i) \/ SendFail(c, i) \/ BackoffDone(c, i)

Spec == Init /\ [][Next]_vars

\* the same service when every awaited promise settles: the lookup resolves
\* or rejects, every call of sendBirthdayMessage resolves or throws, every
\* timer expires, and the continuation after Promise.allSettled runs
Fairness ==
    /\ WF_vars(\E c \in Slots : LookupOk(c) \/ LookupFail(c))
    /\ WF_vars(\E c \in Slots : Settle(c))
    /\ \A i \in 1..MaxUsers :
          /\ WF_vars(\E c \in Slots : SendOk(c, i) \/ SendFail(c, i))
          /\ WF_vars(\E c \in Slots : BackoffDone(c, i))

SpecLive == Init /\ [][Next]_vars /\ Fairness

\* the cron job when an invocation can outlast the hour: two frames, and a
\* store of one user in New York whose anniversary is the date of the start
OverlapFrames == 2

InitOverlap ==
    /\ now = HourOf(1, 15, 12)
    /\ serverTz = "UTC"
    /\ users = << MkUser(1, "America/New_York", <<1, 15>>) >>
    /\ findCall = NoFindCall
    /\ inv = [c \in 1..OverlapFrames |-> IdleInv]
    /\ log = <<>>
    /\ firings = 0
    /\ deliveries = {}
    /\ api = NoApiCall

SpecOverlap == InitOverlap /\ [][Next]_vars

\* the users API called in any order on a store that starts empty
InitUsers ==
    /\ now = HourOf(1, 15, 12)
    /\ serverTz = "UTC"
    /\ users = <<>>
    /\ findCall = NoFindCall
    /\ inv = << IdleInv >>
    /\ log = <<>>
    /\ firings = 0
    /\ deliveries = {}
    /\ api = NoApiCall

NextUsers == Create \/ FindOne \/ Update \/ Remove

SpecUsers == InitUsers /\ [][NextUsers]_vars

(***************************************************************************)
(* Properties of findUsersWithBirthdayToday                                *)
(***************************************************************************)
\* the calendar date of instant t on the clock of zone tz
LocalDate(t, tz) == Fields(t + OffsetAt(tz, t))

\* today, on the user's own clock, is the user's anniversary
BirthdayNow(u, t) ==
    /\ u.timezone \in KnownZones
    /\ LocalDate(t, u.timezone).month = u.birthdayMonth
    /\ LocalDate(t, u.timezone).day = u.birthdayDay

Ids(list) == {list[i].id : i \in 1..Len(list)}

Elems(list) == {list[i] : i \in 1..Len(list)}

\* C7: whatever the server's timezone, every stored member whose local date
\* at the instant of the call is their anniversary has that anniversary among
\* the three (month, day) pairs of the window the call built
WindowSoundness ==
    findCall.state = "returned" =>
        \A u \in Elems(users) : BirthdayNow(u, now) => InWindow(u, findCall.window)

\* the (month, day) pair of instant t on the UTC clock
UtcPair(t) == [birthdayMonth |-> GetMonth(t, "UTC") + 1,
               birthdayDay   |-> GetDate(t, "UTC")]

\* C18: whatever the server's timezone, the window a call builds at instant
\* now is made of the UTC (month, day) pairs of now, now - 24 h and
\* now + 24 h, and building it raises no error
WindowIsUtc ==
    /\ findCall.error # "RangeError"
    /\ findCall.state = "returned" =>
          findCall.window = << UtcPair(now), UtcPair(now - DayMs),
                               UtcPair(now + DayMs) >>

\* line 234: users.filter applied to a list of candidates
FilterCandidates(list, t, tz) ==
    LET Keep(u) == FilterUser(u, t, tz).keep IN SelectSeq(list, Keep)

\* the stored users outside the candidates whose date, on their own clock,
\* is not their anniversary
Extras == {u \in Elems(users) : u.id \notin Ids(findCall.candidates)
                                /\ ~BirthdayNow(u, now)}

\* C24: the list the call returned is what the filter makes of its
\* candidates, and it makes the same of the candidates with any stored users
\* added whose local date is not their anniversary, wherever in the list
\* they stand; every user returned has their anniversary on their local date
OverFetchSafe ==
    findCall.state = "returned" =>
        /\ findCall.result = FilterCandidates(findCall.candidates, now, serverTz)
        /\ \A X \in SUBSET Extras :
              LET In(u) == u.id \in Ids(findCall.candidates) \/ u \in X
                  more  == SelectSeq(users, In)
              IN  FilterCandidates(more, now, serverTz) = findCall.result
        /\ \A X \in SUBSET Extras : \A x \in X :
              FilterCandidates(<<x>> \o findCall.candidates, now, serverTz)
                  = findCall.result
        /\ \A u \in Elems(findCall.result) : BirthdayNow(u, now)

\* the call returned a member while the store holds another user, outside
\* the candidates, whose local date is not their anniversary
OverFetchSafeWitness ==
    /\ findCall.state = "returned"
    /\ findCall.result # <<>>
    /\ Extras # {}

\* the offsets from UTC, in hours, of the zones the runtime resolves
OffsetsNow == {OffsetAt(tz, now) : tz \in KnownZones}

\* C25: on a server in any timezone, for every zone the runtime resolves
\* (offsets from UTC-12 to UTC+14) the (month, day) the filter compares at
\* instant now is the calendar date of now plus the zone's offset; so
\* 23:00 UTC on Dec 31 is Dec 31 at UTC-5 and 23:00 UTC on Jan 15 is Jan 16
\* at UTC+14
LocalizationCorrect ==
    findCall.state = "returned" =>
        /\ (-12)..14 \subseteq OffsetsNow
        /\ \A tz \in KnownZones :
              UserMonthDay(now, tz, serverTz) =
                  [ok    |-> TRUE,
                   month |-> Fields(now + OffsetAt(tz, now)).month,
                   day   |-> Fields(now + OffsetAt(tz, now)).day]
        /\ UserMonthDay(HourOf(12, 31, 23), "Etc/GMT+5", serverTz) =
              [ok |-> TRUE, month |-> 12, day |-> 31]
        /\ UserMonthDay(HourOf(1, 15, 23), "Pacific/Kiritimati", serverTz) =
              [ok |-> TRUE, month |-> 1, day |-> 16]

\* on a server that is not on UTC a member was returned whose local date is
\* in another year than the UTC date of the instant
LocalizationCorrectWitness ==
    /\ findCall.state = "returned"
    /\ serverTz # "UTC"
    /\ \E u \in Elems(findCall.result) :
          LocalDate(now, u.timezone).year # Fields(now).year

\* C8: a candidate with a resolvable timezone is returned exactly when the
\* (month, day) of the instant on the candidate's own clock is the candidate's
\* anniversary
MatchExactness ==
    findCall.state = "returned" =>
        /\ Ids(findCall.result) \subseteq Ids(findCall.candidates)
        /\ \A u \in Elems(findCall.candidates) :
              u.timezone \in KnownZones =>
                  (u.id \in Ids(findCall.result) <=> BirthdayNow(u, now))

\* a member is returned although the server's own date is not the anniversary
MatchExactnessWitness ==
    /\ findCall.state = "returned"
    /\ \E u \in Elems(findCall.result) :
          /\ BirthdayNow(u, now)
          /\ ~(GetMonth(now, serverTz) + 1 = u.birthdayMonth
               /\ GetDate(now, serverTz) = u.birthdayDay)

\* C9: a candidate whose timezone cannot be resolved is left out of the
\* result and reported with console.error, the other candidates of the call
\* are still evaluated, and the call does not reject because of it
InvalidTimezoneExcluded ==
    /\ findCall.error # "RangeError"
    /\ findCall.state = "returned" =>
          \A u \in Elems(findCall.candidates) :
              IF u.timezone \in KnownZones
              THEN /\ u.id \notin Elems(findCall.errors)
                   /\ BirthdayNow(u, now) => u.id \in Ids(findCall.result)
              ELSE /\ u.id \notin Ids(findCall.result)
                   /\ u.id \in Elems(findCall.errors)

\* a call with an unresolvable candidate in front of a matching one
InvalidTimezoneWitness ==
    /\ findCall.state = "returned"
    /\ \E i, j \in 1..Len(findCall.candidates) :
          /\ i < j
          /\ findCall.candidates[i].timezone \notin KnownZones
          /\ findCall.candidates[i].id \in Elems(findCall.errors)
          /\ findCall.candidates[j].id \in Ids(findCall.result)

\* C10: the returned list holds each stored member at most once
MatchedAtMostOnce ==
    findCall.state = "returned" =>
        \A i, j \in 1..Len(findCall.result) :
            findCall.result[i].id = findCall.result[j].id => i = j

\* a member is returned whose anniversary is two of the window's pairs at once
MatchedOnceWitness ==
    /\ findCall.state = "returned"
    /\ \E u \in Elems(findCall.result) :
          \E i, j \in 1..3 :
              /\ i # j
              /\ findCall.window[i] = findCall.window[j]
              /\ findCall.window[i].birthdayMonth = u.birthdayMonth
              /\ findCall.window[i].birthdayDay = u.birthdayDay

(***************************************************************************)
(* Properties of the retrying sender and of the cycle                      *)
(***************************************************************************)
Frames == {inv[c] : c \in Slots}

SeqsOf(f) == {f.seqs[i] : i \in 1..Len(f.seqs)}

\* every delivery call of the sequence so far has failed and it has ended
AlwaysFailed(s) == Terminal(s) /\ ~s.delivered

\* the first delivery call of the sequence succeeded
AlwaysSucceeded(s) == s.delivered /\ s.attempts = 1

LinesAt(t) == {log[i] : i \in {k \in 1..Len(log) : log[k].at = t}}

\* C1: a sequence whose delivery call fails every time makes exactly
\* maxRetries + 1 calls and then rejects: it never rejects after fewer calls,
\* never waits after the last one and never makes a call more
RetryBound ==
    \A f \in Frames : \A s \in SeqsOf(f) :
        /\ s.attempts <= s.maxRetries + 1
        /\ s.pc = "rejected" => s.attempts = s.maxRetries + 1 /\ ~s.delivered
        /\ (~s.delivered /\ s.attempts = s.maxRetries + 1) => s.pc \in {"send", "rejected"}

\* maxRetries = 2 and three failed calls
RetryBoundWitness ==
    \E f \in Frames : \E s \in SeqsOf(f) :
        s.maxRetries = 2 /\ s.pc = "rejected" /\ s.attempts = 3 /\ s.retries = 3

\* C2: a finished cycle over N matched members of which exactly one failed on
\* every call and the others succeeded at once counts N-1 successful and
\* 1 failed, has delivered to each of the others, and let no exception out
Isolation ==
    \A f \in Frames :
        (/\ f.pc = "done"
         /\ Len(f.seqs) >= 1
         /\ \E i \in 1..Len(f.seqs) :
               /\ AlwaysFailed(f.seqs[i])
               /\ \A j \in 1..Len(f.seqs) : j # i => AlwaysSucceeded(f.seqs[j]))
        => /\ f.successful = Len(f.seqs) - 1
           /\ f.failed = 1
           /\ ~f.threw
           /\ LogLine("log", "complete successful", f.now, Len(f.seqs) - 1) \in LinesAt(f.now)
           /\ LogLine("log", "complete failed", f.now, 1) \in LinesAt(f.now)
           /\ \A s \in SeqsOf(f) : s.delivered => <<s.user, f.now>> \in deliveries

\* a finished cycle of at least two members, one of them failed for good
IsolationWitness ==
    \E f \in Frames :
        /\ f.pc = "done"
        /\ Len(f.seqs) >= 2
        /\ \E i \in 1..Len(f.seqs) :
              /\ AlwaysFailed(f.seqs[i])
              /\ f.seqs[i].attempts = DefaultMaxRetries + 1
              /\ \A j \in 1..Len(f.seqs) : j # i => AlwaysSucceeded(f.seqs[j])

\* C3: no exception leaves checkBirthdays; when the lookup rejects, the
\* invocation ends with the error logged at error level and without a single
\* delivery sequence
LookupFailureContained ==
    \A f \in Frames :
        /\ ~f.threw
        /\ f.lookup = "rejected" =>
              /\ f.pc = "done"
              /\ f.seqs = <<>>
              /\ \E l \in LinesAt(f.now) : l.level = "error"
              /\ \A l \in LinesAt(f.now) : l.msg \in {"checking", "error checking birthdays"}
              /\ \A d \in deliveries : d[2] # f.now

\* an invocation whose lookup rejected has ended
LookupFailureWitness ==
    \E f \in Frames : f.lookup = "rejected" /\ f.pc = "done"

\* a cycle that ended in a lookup failure or with permanent delivery failures
FailedCycle(f) == f.pc = "done" /\ (f.lookup = "rejected" \/ f.failed > 0)

\* a failure was logged by a cycle that started before instant t
FailureBefore(t) ==
    \E i \in 1..Len(log) : log[i].level \in {"error", "warn"} /\ log[i].at < t

\* C4: after a failed cycle the trigger can fire again, the invocation it
\* starts has new locals only, and the sequences that invocation dispatches
\* are those of its own lookup, each at its first attempt
CycleIndependence ==
    /\ [](\A c \in Slots :
             (FailedCycle(inv[c]) /\ firings < MaxFirings) => ENABLED CronFire)
    /\ [][\A c \in Slots :
             /\ (FailedCycle(inv[c]) /\ inv'[c] # inv[c]) =>
                    inv'[c] = [IdleInv EXCEPT !.pc = "lookup", !.now = now',
                                              !.lookup = "pending"]
             /\ (FailureBefore(inv[c].now) /\ inv[c].pc = "lookup"
                                           /\ inv'[c].pc = "settling") =>
                    LET found == FindUsersWithBirthdayToday(inv[c].now, serverTz, users).result
                    IN  /\ Len(inv'[c].seqs) = Len(found)
                        /\ \A i \in 1..Len(found) :
                              inv'[c].seqs[i] =
                                  NewSeq(found[i], DefaultMaxRetries, DefaultBaseDelay)
                        /\ inv'[c].successful = 0 /\ inv'[c].failed = 0]_vars

\* a cycle delivered after an earlier cycle had failed
CycleIndependenceWitness ==
    \E f \in Frames :
        /\ f.pc = "done"
        /\ f.successful >= 1
        /\ FailureBefore(f.now)

\* C5: a member who has been delivered a message is not delivered another
\* one by a later firing on the same local day
OneTimeNotification ==
    \A d, e \in deliveries :
        (/\ d[1] = e[1]
         /\ LocalDate(d[2], users[d[1]].timezone).month
              = LocalDate(e[2], users[e[1]].timezone).month
         /\ LocalDate(d[2], users[d[1]].timezone).day
              = LocalDate(e[2], users[e[1]].timezone).day)
        => d[2] = e[2]

\* C6: a delivery sequence for a member is started only by a cycle whose
\* instant is in hour 9 on the member's own clock
SentAtNineLocal ==
    \A f \in Frames : \A s \in SeqsOf(f) :
        LocalDate(f.now, users[s.user].timezone).hour = 9

(***************************************************************************)
(* Properties of the backoff                                               *)
(***************************************************************************)
\* the sequences that are waiting in the timer of line 112
Waiting == {s \in UNION {SeqsOf(f) : f \in Frames} : s.pc = "wait"}

\* C11 as stated: the delay before attempt k = attempts + 1 is at least
\* baseDelay * 2^(k-2) * 0.5 and less than baseDelay * 2^(k-2)
BackoffGrowthExact ==
    \A s \in Waiting :
        /\ 2 * s.delay >= s.baseDelay * Pow2(s.attempts - 1)
        /\ s.delay < s.baseDelay * Pow2(s.attempts - 1)

\* C11: the delay before attempt k = attempts + 1 is a whole number of
\* milliseconds, at least the integer part of baseDelay * 2^(k-2) * 0.5 and
\* less than baseDelay * 2^(k-2)
BackoffGrowth ==
    \A s \in Waiting :
        /\ s.delay \in Nat
        /\ s.delay >= (s.baseDelay * Pow2(s.attempts - 1)) \div 2
        /\ s.delay < s.baseDelay * Pow2(s.attempts - 1)

\* the wait before the fourth attempt, with a jitter above its minimum
BackoffGrowthWitness ==
    \E s \in Waiting :
        /\ s.attempts = 3
        /\ s.baseDelay = DefaultBaseDelay
        /\ 2 * s.delay > s.baseDelay * Pow2(s.attempts - 1)

\* C12: in every state a sequence has made at most maxRetries + 1 calls of
\* sendBirthdayMessage, and no step lowers the number of calls a sequence
\* has made
AttemptsBounded ==
    /\ [](\A f \in Frames : \A s \in SeqsOf(f) :
             s.attempts \in 1..(s.maxRetries + 1))
    /\ [][\A c \in Slots : \A i \in 1..Len(inv[c].seqs) :
             (inv'[c].now = inv[c].now /\ i \in 1..Len(inv'[c].seqs))
                 => inv'[c].seqs[i].attempts >= inv[c].seqs[i].attempts]_vars

\* a sequence of a cycle has used its whole budget of calls
AttemptsBoundedWitness ==
    \E f \in Frames : \E s \in SeqsOf(f) :
        /\ f.pc = "settling"
        /\ s.attempts = s.maxRetries + 1
        /\ s.attempts > 1

(***************************************************************************)
(* Properties of a cycle                                                   *)
(***************************************************************************)
\* the summary lines of the cycle that started at instant t
SummaryLines(t) == {l \in LinesAt(t) : l.msg \in {"complete successful", "complete failed"}}

\* C13: when the log holds the summary of a cycle, every sequence that the
\* cycle started has been fulfilled or rejected
SummaryAfterAllTerminal ==
    \A f \in Frames :
        SummaryLines(f.now) # {} => \A s \in SeqsOf(f) : Terminal(s)

\* the summary of a cycle of two members, one of them retried and delivered,
\* the other rejected
SummaryAfterAllTerminalWitness ==
    \E f \in Frames :
        /\ SummaryLines(f.now) # {}
        /\ \E s \in SeqsOf(f) : s.attempts > 1 /\ s.pc = "fulfilled"
        /\ \E s \in SeqsOf(f) : s.pc = "rejected"

\* C14: while one member's sequence waits in its backoff or has been
\* rejected, the next step of every other unfinished sequence of the cycle
\* is enabled (the call can succeed, the timer can expire), and such a step
\* of one sequence changes no other sequence
NoHeadOfLineBlocking ==
    /\ [](\A c \in Slots : inv[c].pc = "settling" =>
             \A b \in 1..Len(inv[c].seqs) :
                (/\ ~Terminal(inv[c].seqs[b])
                 /\ \E a \in 1..Len(inv[c].seqs) :
                       a # b /\ inv[c].seqs[a].pc \in {"wait", "rejected"})
                => \/ inv[c].seqs[b].pc = "send" /\ ENABLED SendOk(c, b)
                   \/ inv[c].seqs[b].pc = "wait" /\ ENABLED BackoffDone(c, b))
    /\ [][\A c \in Slots : \A b \in 1..Len(inv[c].seqs) :
             (SendOk(c, b) \/ BackoffDone(c, b))
                 => \A a \in 1..Len(inv[c].seqs) :
                       a # b => inv'[c].seqs[a] = inv[c].seqs[a]]_vars

\* one member has been delivered to after a retry while another, which
\* failed first, is still in its backoff
NoHeadOfLineBlockingWitness ==
    \E f \in Frames : \E a, b \in 1..Len(f.seqs) :
        /\ f.pc = "settling"
        /\ a < b
        /\ f.seqs[a].pc = "wait" /\ f.seqs[a].attempts = 1
        /\ f.seqs[b].pc = "fulfilled" /\ f.seqs[b].attempts = 2

\* the frames of the cycles whose lookup resolved with no user
EmptyCycles ==
    {f \in Frames : f.pc = "done" /\ f.lookup = "resolved" /\ f.seqs = <<>>}

\* the instants at which a call of sendBirthdayMessage resolved
DeliveryInstants == {d[2] : d \in deliveries}

\* C15 as stated: a cycle whose lookup returned no user ends without error
\* and without a delivery attempt, and its summary reads 0 successful and
\* 0 failed
EmptyCycleSummary ==
    \A f \in EmptyCycles :
        /\ ~f.threw
        /\ f.now \notin DeliveryInstants
        /\ LogLine("log", "complete successful", f.now, 0) \in LinesAt(f.now)
        /\ LogLine("log", "complete failed", f.now, 0) \in LinesAt(f.now)

\* C15: a cycle whose lookup returned no user ends without error and without
\* a delivery attempt; it counts nothing as successful or failed, and in
\* place of a summary its only lines are "Checking for birthdays" and "No
\* birthdays to process at this time"
EmptyCycleQuiet ==
    \A f \in EmptyCycles :
        /\ ~f.threw
        /\ f.now \notin DeliveryInstants
        /\ f.successful = 0 /\ f.failed = 0
        /\ LinesAt(f.now) = {LogLine("log", "checking", f.now, 0),
                             LogLine("log", "none", f.now, 0)}

\* a cycle over a store that is not empty finds nobody to greet
EmptyCycleWitness ==
    /\ users # <<>>
    /\ EmptyCycles # {}

(***************************************************************************)
(* Properties of a direct call of sendBirthdayMessageWithRetry             *)
(***************************************************************************)
\* the least total of the first j backoff windows, each window starting at
\* the integer part of baseDelay * 2^(k-1) * 0.5
RECURSIVE WindowsLow(_, _)
WindowsLow(baseDelay, j) ==
    IF j = 0 THEN 0
    ELSE WindowsLow(baseDelay, j - 1) + (baseDelay * Pow2(j - 1)) \div 2

\* the total of the ends of the first j backoff windows
WindowsHigh(baseDelay, j) == baseDelay * (Pow2(j) - 1)

\* C16: a direct call whose delivery failed j times is, while it has not
\* ended, at call j + 1 with j <= maxRetries; when that call succeeds the
\* sender resolves as success after exactly j + 1 calls, having spent in
\* backoff a time within the sum of the j windows (nothing for j = 0); for
\* maxRetries = 3, baseDelay = 1000 and j = 2 that is at least 1500 ms and
\* less than 3000 ms
SuccessAfterRetries ==
    \A f \in Frames : f.pc = "direct" =>
        \A s \in SeqsOf(f) :
            /\ s.pc = "send" =>
                  /\ s.retries <= s.maxRetries
                  /\ s.attempts = s.retries + 1
                  /\ \A c \in Slots : inv[c] = f => ENABLED SendOk(c, 1)
            /\ s.pc = "fulfilled" =>
                  /\ s.delivered
                  /\ s.retries <= s.maxRetries
                  /\ s.attempts = s.retries + 1
                  /\ f.elapsed >= WindowsLow(s.baseDelay, s.retries)
                  /\ s.retries = 0 => f.elapsed = 0
                  /\ s.retries > 0 => f.elapsed < WindowsHigh(s.baseDelay, s.retries)
                  /\ (s.maxRetries = 3 /\ s.baseDelay = 1000 /\ s.retries = 2)
                        => (f.elapsed >= 1500 /\ f.elapsed < 3000)

\* maxRetries = 3, baseDelay = 1000: the first two calls failed, the third
\* succeeded, and the jitter was not at its minimum both times
SuccessAfterRetriesWitness ==
    \E f \in Frames : \E s \in SeqsOf(f) :
        /\ f.pc = "direct"
        /\ s.pc = "fulfilled" /\ s.attempts = 3
        /\ s.maxRetries = 3 /\ s.baseDelay = 1000
        /\ f.elapsed > 1500

(***************************************************************************)
(* Properties of the dispatch                                              *)
(***************************************************************************)
\* the ids of the users whose sequences a frame holds, in order
UsersOf(f) == [i \in 1..Len(f.seqs) |-> f.seqs[i].user]

\* C17: the step in which the lookup of a cycle resolves starts one sequence
\* for each user the lookup returned, in the order returned, each at its
\* first call, and none for anybody else; no later step of the cycle starts
\* or drops a sequence
DispatchExactlyOnce ==
    [][\A c \in Slots :
         /\ (/\ inv[c].pc = "lookup"
             /\ inv'[c].lookup = "resolved")
            => LET returned == FindUsersWithBirthdayToday(inv[c].now, serverTz,
                                                          users).result
               IN  /\ UsersOf(inv'[c]) = [i \in 1..Len(returned) |-> returned[i].id]
                   /\ \A i \in 1..Len(returned) : inv'[c].seqs[i].attempts = 1
                   /\ \A i, j \in 1..Len(returned) :
                         returned[i].id = returned[j].id => i = j
         /\ (/\ inv[c].pc \in {"settling", "done"}
             /\ inv'[c].now = inv[c].now)
            => UsersOf(inv'[c]) = UsersOf(inv[c])]_vars

\* a cycle that started a sequence for one stored user and none for another
DispatchExactlyOnceWitness ==
    \E f \in Frames :
        /\ f.pc = "settling"
        /\ Len(f.seqs) >= 1
        /\ Ids(users) \ {s.user : s \in SeqsOf(f)} # {}

(***************************************************************************)
(* Properties of the users API                                             *)
(***************************************************************************)
\* C19: every stored user has a timezone the runtime resolves, and a create
\* or update whose DTO names a timezone the runtime cannot resolve ends in
\* BadRequestException and leaves the store as it was
StoredTimezonesResolvable ==
    /\ [](\A u \in Elems(users) : u.timezone \in KnownZones)
    /\ [][(/\ api'.op \in {"create", "update"}
            /\ api'.timezone # ""
            /\ api'.timezone \notin KnownZones)
           => (api'.outcome = "BadRequestException" /\ users' = users)]_vars

\* an update of a stored user was refused for its timezone
StoredTimezonesWitness ==
    /\ api.op = "update"
    /\ api.timezone = "Not/AZone"
    /\ api.outcome = "BadRequestException"
    /\ api.id \in Ids(users)

\* C20 as stated: findOne, update and remove with an id that no stored user
\* has end in NotFoundException and leave the store as it was
UnknownIdNotFound ==
    [][(api'.op \in {"findOne", "update", "remove"} /\ api'.id \notin Ids(users))
       => (api'.outcome = "NotFoundException" /\ users' = users)]_vars

\* C20: findOne and remove with an id that no stored user has, and update
\* with such an id and a DTO whose timezone is absent or resolvable, end in
\* NotFoundException; update with such an id and a timezone the runtime
\* cannot resolve ends in BadRequestException; the store is as it was
UnknownIdRejected ==
    [][(api'.op \in {"findOne", "update", "remove"} /\ api'.id \notin Ids(users))
       => /\ users' = users
          /\ api'.outcome =
                IF api'.op = "update" /\ api'.timezone # ""
                                     /\ api'.timezone \notin KnownZones
                THEN "BadRequestException" ELSE "NotFoundException"]_vars

\* a remove of a user that was removed before, on a store that is not empty
UnknownIdWitness ==
    /\ api.op = "remove"
    /\ api.outcome = "NotFoundException"
    /\ api.id < api.nextId
    /\ users # <<>>

(***************************************************************************)
(* Properties of a permanent failure                                       *)
(***************************************************************************)
\* C21: a sequence of a cycle that was rejected reports the error raised by
\* its call number maxRetries + 1, the last call it made, and that same
\* error is the one processBirthdayMessage rejected with
LastErrorPropagated ==
    \A f \in Frames : \A s \in SeqsOf(f) :
        s.pc = "rejected" =>
            /\ s.thrown = s.maxRetries + 1
            /\ s.thrown = s.attempts
            /\ s.thrown = s.caught
            /\ s.rethrown = s.thrown

\* a sequence of a cycle was rejected after it had caught earlier errors
LastErrorPropagatedWitness ==
    \E f \in Frames : \E s \in SeqsOf(f) :
        /\ f.pc \in {"settling", "done"}
        /\ s.pc = "rejected"
        /\ s.thrown > 1

(***************************************************************************)
(* Properties of the summary                                               *)
(***************************************************************************)
\* the summary of the cycle of frame f reads n successful and m failed
SummaryReads(f, n, m) ==
    /\ f.successful = n /\ f.failed = m
    /\ SummaryLines(f.now) = {LogLine("log", "complete successful", f.now, n),
                              LogLine("log", "complete failed", f.now, m)}

\* C22: however the steps of the sequences of a cycle were interleaved, the
\* summary of the finished cycle counts as successful the members that were
\* delivered to and as failed the others, each member once: the two counts
\* add up to the number of members the lookup returned
SummaryOrderIndependent ==
    \A f \in Frames :
        (f.pc = "done" /\ f.seqs # <<>>) =>
            LET sent   == {i \in 1..Len(f.seqs) : f.seqs[i].delivered}
                unsent == {i \in 1..Len(f.seqs) : f.seqs[i].thrown # 0}
            IN  /\ sent \cup unsent = 1..Len(f.seqs)
                /\ sent \cap unsent = {}
                /\ SummaryReads(f, Cardinality(sent), Cardinality(unsent))
                /\ f.successful + f.failed = Len(f.seqs)
                /\ LogLine("log", "found", f.now, Len(f.seqs)) \in LinesAt(f.now)

\* the second member was delivered to at once, the first was rejected after
\* all its retries: the sequences ended in the reverse of their order
SummaryOrderIndependentWitness ==
    \E f \in Frames :
        /\ f.pc = "done"
        /\ Len(f.seqs) = 2
        /\ f.seqs[1].pc = "rejected"
        /\ f.seqs[2].pc = "fulfilled" /\ f.seqs[2].attempts = 1
        /\ SummaryReads(f, 1, 1)

(***************************************************************************)
(* Properties of overlapping firings                                       *)
(***************************************************************************)
Running(f) == f.pc \in {"lookup", "settling"}

\* C23: a firing is never held back by an invocation that is still running:
\* while firings remain and a frame is free the cron job can invoke
\* checkBirthdays; the invocation starts its own cycle and leaves every
\* running invocation as it is; and the step in which the lookup of a cycle
\* resolves starts a sequence for each member the lookup returned, also for
\* a member that another running cycle is processing
NoMutualExclusion ==
    /\ []((/\ firings < MaxFirings
           /\ \E c \in Slots : inv[c].pc \in {"idle", "done"})
          => ENABLED CronFire)
    /\ [][CronFire =>
            /\ \A c \in Slots : Running(inv[c]) => inv'[c] = inv[c]
            /\ \E c \in Slots : ~Running(inv[c]) /\ inv'[c].pc = "lookup"]_vars
    /\ [][\A c \in Slots :
            (inv[c].pc = "lookup" /\ inv'[c].lookup = "resolved") =>
                \A u \in Elems(FindUsersWithBirthdayToday(inv[c].now, serverTz,
                                                          users).result) :
                    \E s \in SeqsOf(inv'[c]) : s.user = u.id /\ s.pc = "send"]_vars

\* two invocations are running at once, each with an unfinished sequence for
\* the same member
NoMutualExclusionWitness ==
    \E c, d \in Slots :
        /\ c # d
        /\ inv[c].pc = "settling" /\ inv[d].pc = "settling"
        /\ inv[c].now # inv[d].now
        /\ \E s \in SeqsOf(inv[c]) : \E r \in SeqsOf(inv[d]) :
              s.user = r.user /\ ~Terminal(s) /\ ~Terminal(r)

(***************************************************************************)
(* Properties of one sequence                                              *)
(***************************************************************************)
\* sequence i of frame c is the same run of the sender before and after the
\* step
SameRun(c, i) ==
    /\ inv'[c].now = inv[c].now
    /\ i \in 1..Len(inv'[c].seqs)

\* C26: a sequence whose call of sendBirthdayMessage has resolved has
\* returned: it is fulfilled, no call, failure or timer of that sequence
\* can follow, no step changes it, and the cycle holds no second sequence
\* for the member
DeliveredAtMostOnce ==
    /\ [](\A c \in Slots : \A i \in 1..Len(inv[c].seqs) :
             inv[c].seqs[i].delivered =>
                 /\ inv[c].seqs[i].pc = "fulfilled"
                 /\ ~ENABLED SendOk(c, i)
                 /\ ~ENABLED SendFail(c, i)
                 /\ ~ENABLED BackoffDone(c, i)
                 /\ \A k \in 1..Len(inv[c].seqs) :
                       inv[c].seqs[k].user = inv[c].seqs[i].user => k = i)
    /\ [][\A c \in Slots : \A i \in 1..Len(inv[c].seqs) :
             (inv[c].seqs[i].delivered /\ SameRun(c, i))
                 => inv'[c].seqs[i] = inv[c].seqs[i]]_vars

\* a member was delivered to at the third call while the cycle goes on for
\* another member
DeliveredAtMostOnceWitness ==
    \E f \in Frames : \E s, r \in SeqsOf(f) :
        /\ f.pc = "settling"
        /\ s.delivered /\ s.attempts = 3
        /\ r.pc = "send" /\ r.user # s.user

\* C27: every timer of a sequence stands between two calls: a sequence that
\* is waiting has started as many timers as it has made calls and has a call
\* left to make, a sequence that is calling has started one timer fewer than
\* calls; a sequence is rejected out of a call, not out of a timer, after
\* exactly maxRetries timers and maxRetries + 1 calls, which for
\* maxRetries = 0 is one call and no timer
NoWaitAfterFinalFailure ==
    /\ [](\A c \in Slots : \A i \in 1..Len(inv[c].seqs) :
             LET s == inv[c].seqs[i]
             IN  /\ s.pc = "wait" =>
                       /\ s.waits = s.attempts
                       /\ s.attempts <= s.maxRetries
                       /\ ENABLED BackoffDone(c, i)
                 /\ s.pc = "send" => s.waits = s.attempts - 1
                 /\ s.pc = "rejected" =>
                       /\ s.waits = s.maxRetries
                       /\ s.attempts = s.maxRetries + 1
                       /\ s.delay = 0
                       /\ s.maxRetries = 0 => (s.attempts = 1 /\ s.waits = 0))
    /\ [][\A c \in Slots : \A i \in 1..Len(inv[c].seqs) :
             (/\ SameRun(c, i)
              /\ inv[c].seqs[i].pc # "rejected"
              /\ inv'[c].seqs[i].pc = "rejected")
             => /\ inv[c].seqs[i].pc = "send"
                /\ inv'[c].seqs[i].waits = inv[c].seqs[i].waits
                /\ inv'[c].elapsed = inv[c].elapsed]_vars

\* a direct call with maxRetries = 2 was rejected after its two timers
NoWaitAfterFinalFailureWitness ==
    \E f \in Frames : \E s \in SeqsOf(f) :
        /\ f.pc = "direct"
        /\ s.pc = "rejected"
        /\ s.maxRetries = 2 /\ s.waits = 2
        /\ f.elapsed > 0

(***************************************************************************)
(* Termination                                                             *)
(***************************************************************************)
\* the invocation of firing n has returned, every sequence it started having
\* been fulfilled or rejected within its budget of calls
Returned(n) ==
    /\ firings = n
    /\ \A f \in Frames :
          /\ f.pc = "done"
          /\ \A s \in SeqsOf(f) :
                /\ s.pc \in {"fulfilled", "rejected"}
                /\ s.attempts <= s.maxRetries + 1

\* C28: when every call and every timer completes, each invocation of
\* checkBirthdays returns, whatever calls fail, with each of its sequences
\* fulfilled or rejected after at most maxRetries + 1 calls
CycleTerminates ==
    \A n \in 1..MaxFirings : (firings = n) ~> Returned(n)

\* the last invocation has returned after every call for every member failed
CycleTerminatesWitness ==
    /\ Returned(MaxFirings)
    /\ \E f \in Frames :
          /\ Len(f.seqs) = 2
          /\ \A s \in SeqsOf(f) : s.pc = "rejected" /\ s.waits = s.maxRetries

====
